---------------------------- MODULE Spec2Model ----------------------------
(***************************************************************************)
(* A model of the `nit` crate: digits of an arbitrary base stored in an    *)
(* unsigned machine integer.                                               *)
(*                                                                         *)
(*   max_nits.rs       compute_max_nits_in_bits  (capacity of (BASE,BITS)) *)
(*   places.rs         PlacesIndex::new          (validated digit index)   *)
(*   base.rs           Base::get_places_shifter  (BASE^index)              *)
(*   data_container.rs get_nit / set_nit         (read / overwrite a digit)*)
(*   lib.rs            Nit::new                  (range-checked digit)     *)
(*                                                                         *)
(* TLC's integers are 32 bits wide.  The u128 arithmetic of the capacity   *)
(* computation is therefore carried out on eight 16-bit limbs, and the     *)
(* backing integers of the container are the 8- and 16-bit ones.           *)
(***************************************************************************)
EXTENDS Integers, Sequences, FiniteSets

VARIABLES
    BITS,      \* const generic BITS / TYPE_BIT_WIDTH
    BASE,      \* const generic BASE
    data,      \* the backing integer (`self`)
    op,        \* the entry point that ran last ("init" before any)
    index,     \* its raw index argument `n`
    value,     \* its digit argument (`value.get_value()`)
    old,       \* the backing integer before it ran
    result,    \* what it returned
    written,   \* history: the digit last written at each position
    scenario   \* history: how many steps of the packing scenario the calls
               \* made so far are (-1 once they are none of it)

vars == <<BITS, BASE, data, op, index, value, old, result, written, scenario>>

---------------------------------------------------------------------------
(* supported.rs *)

\* FitsMaximumBits = BaseMaximum = u8: the range of BITS, BASE, indices, digits.
U8_MAX == 255

MAXIMUM_SUPPORTED_BITS == 128

---------------------------------------------------------------------------
(* Result / Option values, all of one record shape so that they compare.   *)

Ok(v) == [tag |-> "Ok", val |-> v, err |-> "-"]

Err(e) == [tag |-> "Err", val |-> 0, err |-> e]

Some(v) == [tag |-> "Some", val |-> v, err |-> "-"]

None == [tag |-> "None", val |-> 0, err |-> "-"]

\* A panic (debug build) of an arithmetic operation inside an entry point.
Panic(why) == [tag |-> "Panic", val |-> 0, err |-> why]

NoResult == [tag |-> "-", val |-> 0, err |-> "-"]

---------------------------------------------------------------------------
(* FitsMaximumBitsAsType = u128, as little-endian 16-bit limbs (at most    *)
(* eight) without leading zero limbs; zero is the empty sequence.          *)

LimbBase == 2^16

NumLimbs == 128 \div 16

RECURSIVE u128_normalize(_)
u128_normalize(a) ==
    IF Len(a) > 0 /\ a[Len(a)] = 0 THEN u128_normalize(SubSeq(a, 1, Len(a) - 1))
    ELSE a

\* FitsMaximumBitsAsType::MAX
u128_MAX == [i \in 1..NumLimbs |-> LimbBase - 1]

\* k zero limbs
RECURSIVE u128_zero_limbs(_)
u128_zero_limbs(k) == IF k = 0 THEN << >> ELSE <<0>> \o u128_zero_limbs(k - 1)

\* 1_u128.wrapping_shl(n): the shift amount is taken modulo 128.
u128_one_wrapping_shl(n) ==
    LET s == n % 128
    IN  u128_zero_limbs(s \div 16) \o <<2^(s % 16)>>

\* a - 1 on limbs, borrowing from the lowest limb upwards (a > 0).
RECURSIVE u128_borrow(_)
u128_borrow(a) ==
    IF Head(a) > 0 THEN <<Head(a) - 1>> \o Tail(a)
    ELSE <<LimbBase - 1>> \o u128_borrow(Tail(a))

u128_is_zero(a) == Len(a) = 0

u128_sub_one(a) == u128_normalize(u128_borrow(a))

\* a < small, for small < 2^16
u128_lt_small(a, small) ==
    \/ Len(a) = 0 /\ 0 < small
    \/ Len(a) = 1 /\ a[1] < small

\* a / b for a small divisor b: long division from the top limb down.
RECURSIVE u128_div_limbs(_, _, _, _)
u128_div_limbs(a, b, i, rem) ==
    IF i = 0 THEN << >>
    ELSE LET cur == rem * LimbBase + a[i]
         IN  Append(u128_div_limbs(a, b, i - 1, cur % b), cur \div b)

u128_div_small(a, b) == u128_normalize(u128_div_limbs(a, b, Len(a), 0))

\* u128::ilog of the standard library: floor(log_b(a)), by repeated division,
\* ilog_stride(b) factors of b at a time while that many are left.
\* It panics when a = 0 or b < 2; -1 stands for that panic.
ilog_stride(b) == CHOOSE j \in 1..15 : b^j < 2^15 /\ b^(j + 1) >= 2^15

RECURSIVE ilog_loop(_, _)
ilog_loop(a, b) ==
    IF u128_lt_small(a, b) THEN 0
    ELSE IF ~u128_lt_small(a, b^ilog_stride(b))
         THEN ilog_stride(b) + ilog_loop(u128_div_small(a, b^ilog_stride(b)), b)
         ELSE 1 + ilog_loop(u128_div_small(a, b), b)

ilog(a, b) == IF u128_is_zero(a) \/ b < 2 THEN -1 ELSE ilog_loop(a, b)

---------------------------------------------------------------------------
(* max_nits.rs *)

\* (mutant) a logarithm rounded up instead of down
max_ilog_rounded_up(max, base) == ilog(max, base) + 1

\* `max.ilog(BASE as FitsMaximumBitsAsType)`
max_ilog(max, base) == ilog(max, base)

\* (mutant) the `BASE == 2` early return left out
compute_max_nits_without_binary_case(base, bits) ==
    IF bits < 1 THEN Err("BitsTooSmall")
    ELSE IF bits > MAXIMUM_SUPPORTED_BITS THEN Err("BitsTooLarge")
    ELSE IF base <= 1 THEN Err("BaseTooSmall")
    ELSE IF base > MAXIMUM_SUPPORTED_BITS THEN Err("BaseTooLarge")
    ELSE LET max == IF bits = MAXIMUM_SUPPORTED_BITS THEN u128_MAX
                    ELSE u128_sub_one(u128_one_wrapping_shl(bits))
         IN  IF u128_lt_small(max, base - 1)
             THEN Err("BaseExceedsMaxBitValues")
             ELSE Ok(max_ilog(max, base) % (U8_MAX + 1))

\* `max` of compute_max_nits_in_bits: the largest value of BITS bits
max_of_bits(bits) ==
    IF bits = MAXIMUM_SUPPORTED_BITS THEN u128_MAX
    ELSE u128_sub_one(u128_one_wrapping_shl(bits))

\* The early returns passed: the arithmetic on `max` is reached.
reaches_max(base, bits) ==
    /\ ~(bits < 1)
    /\ ~(bits > MAXIMUM_SUPPORTED_BITS)
    /\ ~(base <= 1)
    /\ ~(base = 2)
    /\ ~(base > MAXIMUM_SUPPORTED_BITS)

\* (mutant) the `BASE <= 1` early return left out
compute_max_nits_without_base_floor(base, bits) ==
    IF bits < 1 THEN Err("BitsTooSmall")
    ELSE IF bits > MAXIMUM_SUPPORTED_BITS THEN Err("BitsTooLarge")
    ELSE IF base = 2 THEN Ok(bits)
    ELSE IF base > MAXIMUM_SUPPORTED_BITS THEN Err("BaseTooLarge")
    ELSE LET max == IF bits = MAXIMUM_SUPPORTED_BITS THEN u128_MAX
                    ELSE u128_sub_one(u128_one_wrapping_shl(bits))
         IN  IF base >= 1 /\ u128_lt_small(max, base - 1)
             THEN Err("BaseExceedsMaxBitValues")
             ELSE LET log == max_ilog(max, base)
                  IN  IF log < 0 THEN Panic("ilog") ELSE Ok(log % (U8_MAX + 1))

\* (mutant) the base checked before the bit count
compute_max_nits_checking_base_first(base, bits) ==
    IF base <= 1 THEN Err("BaseTooSmall")
    ELSE IF bits < 1 THEN Err("BitsTooSmall")
    ELSE IF bits > MAXIMUM_SUPPORTED_BITS THEN Err("BitsTooLarge")
    ELSE IF base = 2 THEN Ok(bits)
    ELSE IF base > MAXIMUM_SUPPORTED_BITS THEN Err("BaseTooLarge")
    ELSE LET max == IF bits = MAXIMUM_SUPPORTED_BITS THEN u128_MAX
                    ELSE u128_sub_one(u128_one_wrapping_shl(bits))
         IN  IF u128_lt_small(max, base - 1)
             THEN Err("BaseExceedsMaxBitValues")
             ELSE Ok(max_ilog(max, base) % (U8_MAX + 1))

compute_max_nits_in_bits(base, bits) ==
    IF bits < 1 THEN Err("BitsTooSmall")
    ELSE IF bits > MAXIMUM_SUPPORTED_BITS THEN Err("BitsTooLarge")
    ELSE IF base <= 1 THEN Err("BaseTooSmall")
    ELSE IF base = 2 THEN Ok(bits)
    ELSE IF base > MAXIMUM_SUPPORTED_BITS THEN Err("BaseTooLarge")
    ELSE LET max == IF bits = MAXIMUM_SUPPORTED_BITS THEN u128_MAX
                    ELSE u128_sub_one(u128_one_wrapping_shl(bits))
         IN  IF u128_lt_small(max, base - 1)
             THEN Err("BaseExceedsMaxBitValues")
             ELSE LET log == max_ilog(max, base)
                  IN  IF log < 0 THEN Panic("ilog") ELSE Ok(log % (U8_MAX + 1))

---------------------------------------------------------------------------
(* The capacity computation on its own: every (BASE, BITS) of the type u8. *)

InitCap ==
    /\ BASE \in 0..U8_MAX
    /\ BITS \in 0..U8_MAX
    /\ data = 0
    /\ op = "init"
    /\ index = 0
    /\ value = 0
    /\ old = 0
    /\ result = NoResult
    /\ written = << >>
    /\ scenario = -1

ComputeMaxNits ==
    /\ op = "init"
    /\ op' = "compute_max_nits_in_bits"
    /\ result' = compute_max_nits_in_bits(BASE, BITS)
    /\ UNCHANGED <<BITS, BASE, data, index, value, old, written, scenario>>

NextCap == ComputeMaxNits

SpecCap == InitCap /\ [][NextCap]_vars

---------------------------------------------------------------------------
(* lib.rs *)

\* Nit::<BASE>::new
Nit_new(base, v) == IF v < base THEN Ok(v) ELSE Err("NitCreationError")

---------------------------------------------------------------------------
(* places.rs *)

BadNitLimitEvaluation(e) == "BadNitLimitEvaluation(" \o e \o ")"

\* (mutant) `>` in place of `>=`: the index equal to the capacity accepted
PlacesIndex_new_off_by_one(bits, base, n) ==
    LET max == compute_max_nits_in_bits(base, bits)
    IN  IF max.tag = "Panic" THEN max
        ELSE IF max.tag = "Err" THEN Err(BadNitLimitEvaluation(max.err))
        ELSE IF n > max.val THEN Err("OutOfBounds")
        ELSE Ok(n)

\* PlacesIndex::<TYPE_BIT_WIDTH, BASE>::new
PlacesIndex_new(bits, base, n) ==
    LET max == compute_max_nits_in_bits(base, bits)
    IN  IF max.tag = "Panic" THEN max
        ELSE IF max.tag = "Err" THEN Err(BadNitLimitEvaluation(max.err))
        ELSE IF n >= max.val THEN Err("OutOfBounds")
        ELSE Ok(n)

---------------------------------------------------------------------------
(* The backing integer types: u8 and u16 of                                *)
(* impl_numeric_data_container!(u8, u16, u32, u64, u128).                  *)

TypeWidths == {8, 16}

\* 2^BITS of the backing type: its arithmetic wraps modulo this.
Modulus(bits) == 2^bits

overflowing_sub(a, b, bits) == (a - b) % Modulus(bits)

\* (mutant) an addition that saturates instead of wrapping
saturating_add(a, b, bits) ==
    IF a + b > Modulus(bits) - 1 THEN Modulus(bits) - 1 ELSE a + b

overflowing_add(a, b, bits) == (a + b) % Modulus(bits)

\* (mutant) a multiplication that saturates instead of wrapping
saturating_mul(a, b, bits) ==
    IF a = 0 \/ b <= (Modulus(bits) - 1) \div a THEN a * b ELSE Modulus(bits) - 1

\* The low BITS bits of a * b.  The product of two 16-bit values needs 32
\* bits, so it is summed from the two bytes of b.
overflowing_mul(a, b, bits) ==
    LET lo == b % 256
        hi == b \div 256
    IN  (a * lo + ((a * hi) % Modulus(bits)) * 256) % Modulus(bits)

---------------------------------------------------------------------------
(* base.rs *)

\* <$type>::pow, wrapping (the release build)
RECURSIVE wrapping_pow(_, _, _)
wrapping_pow(b, e, bits) ==
    IF e = 0 THEN 1 % Modulus(bits)
    ELSE overflowing_mul(wrapping_pow(b, e - 1, bits), b, bits)

\* Whether b^e exceeds the backing type: the overflow on which <$type>::pow
\* panics in a build with overflow checks (its intermediate products are
\* powers of b no larger than b^e).
RECURSIVE pow_overflows(_, _, _)
pow_overflows(b, e, bits) ==
    IF e = 0 THEN FALSE
    ELSE \/ pow_overflows(b, e - 1, bits)
         \/ b > 0 /\ wrapping_pow(b, e - 1, bits) > (Modulus(bits) - 1) \div b

\* (mutant) BASE * n in place of BASE.pow(n)
get_places_shifter_by_multiplying(bits, base, n) ==
    IF n = 0 THEN 1 ELSE overflowing_mul(base % Modulus(bits), n, bits)

\* (mutant) the scale of the next place
get_places_shifter_one_place_up(bits, base, n) ==
    wrapping_pow(base % Modulus(bits), n + 1, bits)

\* Base::get_places_shifter: (BASE as $type).pow(n.get() as u32)
get_places_shifter(bits, base, n) == wrapping_pow(base % Modulus(bits), n, bits)

---------------------------------------------------------------------------
(* data_container.rs *)

\* (mutant) the `% modulator` left out
get_nit_indexed_without_modulo(self, bits, base, n) ==
    (self \div get_places_shifter(bits, base, n)) % (U8_MAX + 1)

\* get_nit_indexed; n is the index held by a PlacesIndex
get_nit_indexed(self, bits, base, n) ==
    LET shifter == get_places_shifter(bits, base, n)
        modulator == base % Modulus(bits)
        digit == (self \div shifter) % modulator
    IN  digit % (U8_MAX + 1)

\* The arithmetic of get_nit_indexed / set_nit_indexed that can panic: the
\* pow of get_places_shifter, `*self / shifter` and `% modulator`; "-" if none
\* does for this index.
indexed_panic(bits, base, n) ==
    IF pow_overflows(base % Modulus(bits), n, bits) THEN "pow overflow"
    ELSE IF get_places_shifter(bits, base, n) = 0 THEN "division by zero"
    ELSE IF base % Modulus(bits) = 0 THEN "modulo by zero"
    ELSE "-"

\* get_nit
get_nit(self, bits, base, n) ==
    LET v == PlacesIndex_new(bits, base, n)
    IN  IF v.tag = "Ok"
        THEN IF indexed_panic(bits, base, v.val) # "-"
             THEN Panic(indexed_panic(bits, base, v.val))
             ELSE Some(get_nit_indexed(self, bits, base, v.val))
        ELSE IF v.tag = "Panic" THEN v
        ELSE None

\* (mutant) a difference that stops at zero instead of wrapping
set_diff_saturating(v, digit, bits) ==
    IF (v % Modulus(bits)) >= digit THEN (v % Modulus(bits)) - digit ELSE 0

\* `diff` of set_nit_indexed: (value.get_value() as $type).overflowing_sub(digit).0
set_diff(v, digit, bits) == overflowing_sub(v % Modulus(bits), digit, bits)

\* `adjust` of set_nit_indexed: diff.overflowing_mul(shifter).0
set_adjust(diff, shifter, bits) == overflowing_mul(diff, shifter, bits)

\* (mutant) the new digit returned in place of the previous one
set_nit_indexed_returning_new(self, bits, base, n, v) ==
    LET shifter == get_places_shifter(bits, base, n)
        digit == (self \div shifter) % (base % Modulus(bits))
        adjust == set_adjust(set_diff(v, digit, bits), shifter, bits)
    IN  [self |-> overflowing_add(self, adjust, bits), ret |-> v]

\* (mutant) the new digit's contribution added, the old one's not removed
set_nit_indexed_adding(self, bits, base, n, v) ==
    LET shifter == get_places_shifter(bits, base, n)
        digit == (self \div shifter) % (base % Modulus(bits))
    IN  [self |-> overflowing_add(self, overflowing_mul(v, shifter, bits), bits),
         ret  |-> digit % (U8_MAX + 1)]

\* set_nit_indexed: the integer it leaves in `self` and the digit it returns
set_nit_indexed(self, bits, base, n, v) ==
    LET shifter == get_places_shifter(bits, base, n)
        modulator == base % Modulus(bits)
        digit == (self \div shifter) % modulator
        diff == set_diff(v, digit, bits)
        adjust == set_adjust(diff, shifter, bits)
    IN  [self |-> overflowing_add(self, adjust, bits),
         ret  |-> digit % (U8_MAX + 1)]

\* (mutant) every failed validation reported as OutOfBounds
set_nit_reporting_out_of_bounds(self, bits, base, n, v) ==
    LET i == PlacesIndex_new(bits, base, n)
    IN  IF i.tag = "Ok"
        THEN LET done == set_nit_indexed(self, bits, base, i.val, v)
             IN  [self |-> done.self, ret |-> Ok(done.ret)]
        ELSE [self |-> self, ret |-> Err("OutOfBounds")]

\* set_nit: the integer it leaves in `self` and the Result it returns
set_nit(self, bits, base, n, v) ==
    LET i == PlacesIndex_new(bits, base, n)
    IN  IF i.tag = "Ok"
        THEN IF indexed_panic(bits, base, i.val) # "-"
             THEN [self |-> self, ret |-> Panic(indexed_panic(bits, base, i.val))]
             ELSE LET done == set_nit_indexed(self, bits, base, i.val, v)
                  IN  [self |-> done.self, ret |-> Ok(done.ret)]
        ELSE [self |-> self, ret |-> i]

---------------------------------------------------------------------------
(* Calls of the checked entry points on a backing integer.                 *)

\* Bases 0..MaxBase are instantiated (0 and 1 are rejected by the code).
MaxBase == 16

\* The 16-bit integers a run starts from; 45279 is the constant of
\* test_binary_equivalency_u16.
WideSamples == {0, 1, 255, 256, 32767, 32768, 45279, 65534, 65535}

StartValues(bits) == IF bits = 8 THEN 0..(Modulus(8) - 1) ELSE WideSamples

\* The positions a PlacesIndex exists for.
ValidIndices(bits, base) ==
    LET max == compute_max_nits_in_bits(base, bits)
    IN  IF max.tag = "Ok" THEN 0..(max.val - 1) ELSE {}

\* The steps of tests::setting::returns_previous_values (first block):
\* position k - 1 is set to PackingScript[k].
PackingScript == <<1, 2, 0, 0, 2>>

Init ==
    /\ BITS \in TypeWidths
    /\ BASE \in 0..MaxBase
    /\ data \in StartValues(BITS)
    /\ op = "init"
    /\ index = 0
    /\ value = 0
    /\ old = data
    /\ result = NoResult
    /\ written = [i \in ValidIndices(BITS, BASE) |-> 0]
    /\ scenario = -1

\* data.set_nit(n, value) for a value = Nit::new(v).unwrap()
SetNitCall(n, v) ==
    \E done \in {set_nit(data, BITS, BASE, n, v)} :
        /\ op' = "set_nit"
        /\ index' = n
        /\ value' = v
        /\ old' = data
        /\ data' = done.self
        /\ result' = done.ret
        /\ written' = IF done.ret.tag = "Ok" THEN [written EXCEPT ![n] = v]
                       ELSE written
        /\ scenario' = IF /\ scenario \in 0..(Len(PackingScript) - 1)
                          /\ done.ret.tag = "Ok"
                          /\ n = scenario
                          /\ v = PackingScript[scenario + 1]
                       THEN scenario + 1
                       ELSE -1
        /\ UNCHANGED <<BITS, BASE>>

\* data.get_nit(n)
GetNitCall(n) ==
    /\ op' = "get_nit"
    /\ index' = n
    /\ old' = data
    /\ result' = get_nit(data, BITS, BASE, n)
    /\ UNCHANGED <<BITS, BASE, data, value, written, scenario>>

\* One call on an arbitrary integer; raw indices up to BITS, which is out
\* of bounds for every base.
SetNit ==
    /\ op = "init"
    /\ \E v \in 0..U8_MAX :
          /\ Nit_new(BASE, v).tag = "Ok"
          /\ \E n \in 0..BITS : SetNitCall(n, v)

GetNit ==
    /\ op = "init"
    /\ \E n \in 0..BITS : GetNitCall(n)

Next == SetNit \/ GetNit

Spec == Init /\ [][Next]_vars

---------------------------------------------------------------------------
(* Any sequence of set_nit calls on a byte that starts as 0                *)
(* (`let mut data: u8 = 0;` of the tests and of the crate's example).      *)

\* Bases 2..MaxSeqBase are instantiated.
MaxSeqBase == 5

InitZero ==
    /\ BITS = 8
    /\ BASE \in 2..MaxSeqBase
    /\ data = 0
    /\ op = "init"
    /\ index = 0
    /\ value = 0
    /\ old = 0
    /\ result = NoResult
    /\ written = [i \in ValidIndices(BITS, BASE) |-> 0]
    /\ scenario = 0

SetNitAgain ==
    \E v \in 0..U8_MAX :
        /\ Nit_new(BASE, v).tag = "Ok"
        /\ \E n \in 0..BITS : SetNitCall(n, v)

NextZero == SetNitAgain

SpecZero == InitZero /\ [][NextZero]_vars

---------------------------------------------------------------------------
(* Every checked entry point, for every base of the type u8.               *)

\* The bit widths instantiated: the limits of the supported range, the
\* widths of the integer types, and widths outside the range.
WidthSamples == {0, 1, 2, 7, 8, 16, 32, 64, 127, 128, 129, 255}

\* The raw indices tried: every index up to one past the largest capacity,
\* and the largest u8.
IndexSamples == 0..(MAXIMUM_SUPPORTED_BITS + 1) \cup {U8_MAX}

\* The raw indices tried on a backing integer of the given width.
RawSamples(bits) == 0..(bits + 1) \cup {U8_MAX}

\* The integers a container call is made on.
DataSamples(bits) ==
    IF bits = 8 THEN {0, 1, 128, 243, 255}
    ELSE IF bits = 16 THEN {0, 1, 32768, 45279, 65535}
    ELSE {0}

\* The digits written: those of these that Nit::new accepts.
DigitSamples(base) ==
    {v \in {0, 1, base \div 2, base - 1} : v >= 0 /\ Nit_new(base, v).tag = "Ok"}

InitChecked ==
    /\ BITS \in WidthSamples
    /\ BASE \in 0..U8_MAX
    /\ data \in DataSamples(BITS)
    /\ op = "init"
    /\ index = 0
    /\ value = 0
    /\ old = data
    /\ result = NoResult
    /\ written = [i \in ValidIndices(BITS, BASE) |-> 0]
    /\ scenario = -1

\* PlacesIndex::<BITS, BASE>::new(n)
PlacesIndexNew ==
    /\ op = "init"
    /\ \E n \in IndexSamples :
          /\ op' = "PlacesIndex::new"
          /\ index' = n
          /\ result' = PlacesIndex_new(BITS, BASE, n)
          /\ UNCHANGED <<BITS, BASE, data, value, old, written, scenario>>

GetNitChecked ==
    /\ op = "init"
    /\ BITS \in TypeWidths
    /\ \E n \in RawSamples(BITS) : GetNitCall(n)

SetNitChecked ==
    /\ op = "init"
    /\ BITS \in TypeWidths
    /\ \E v \in DigitSamples(BASE) : \E n \in RawSamples(BITS) : SetNitCall(n, v)

NextChecked == ComputeMaxNits \/ PlacesIndexNew \/ GetNitChecked \/ SetNitChecked

SpecChecked == InitChecked /\ [][NextChecked]_vars

---------------------------------------------------------------------------
(* Unbounded naturals for the statements about capacities: little-endian   *)
(* sequences of 12-bit limbs without leading zero limbs.                   *)

BigBase == 2^12

RECURSIVE BigMulFrom(_, _, _, _)
BigMulFrom(a, k, i, carry) ==
    IF i > Len(a)
    THEN IF carry = 0 THEN << >>
         ELSE IF carry < BigBase THEN <<carry>>
         ELSE <<carry % BigBase, carry \div BigBase>>
    ELSE LET cur == a[i] * k + carry
         IN  <<cur % BigBase>> \o BigMulFrom(a, k, i + 1, cur \div BigBase)

\* a * k for 1 <= k < 2^18
BigMul(a, k) == BigMulFrom(a, k, 1, 0)

\* the number of factors b multiplied in at a time
BigStride(b) == CHOOSE j \in 1..18 : b^j < 2^18 /\ b^(j + 1) >= 2^18

\* acc * b^k; each product is computed before the next step is taken
RECURSIVE BigPowAcc(_, _, _)
BigPowAcc(b, k, acc) ==
    IF k = 0 THEN acc
    ELSE LET j == IF k >= BigStride(b) THEN BigStride(b) ELSE k
             next == BigMul(acc, b^j)
         IN  IF Len(next) > 0 THEN BigPowAcc(b, k - j, next) ELSE << >>

BigPow(b, k) == BigPowAcc(b, k, <<1>>)

\* 2^n
BigPow2(n) == [i \in 1..((n \div 12) + 1) |-> IF i = (n \div 12) + 1 THEN 2^(n % 12) ELSE 0]

RECURSIVE BigLtFrom(_, _, _)
BigLtFrom(a, b, i) ==
    IF i = 0 THEN FALSE
    ELSE IF a[i] # b[i] THEN a[i] < b[i]
    ELSE BigLtFrom(a, b, i - 1)

BigLt(a, b) == IF Len(a) # Len(b) THEN Len(a) < Len(b) ELSE BigLtFrom(a, b, Len(a))

BigLeq(a, b) == ~BigLt(b, a)

\* k = floor(log_b(2^n - 1)): the largest k with b^k <= 2^n - 1
IsFloorLogOfMax(k, b, n) ==
    /\ BigLt(BigPow(b, k), BigPow2(n))
    /\ ~BigLt(BigPow(b, k + 1), BigPow2(n))

\* k = ceil(log_b(2^n)): the smallest k with b^k >= 2^n
IsCeilLog(k, b, n) ==
    /\ BigLeq(BigPow2(n), BigPow(b, k))
    /\ k > 0 => BigLt(BigPow(b, k - 1), BigPow2(n))

Computed == op = "compute_max_nits_in_bits"

---------------------------------------------------------------------------
C9_CapacityIsMaximal ==
    (Computed /\ result.tag = "Ok") =>
        /\ BigLeq(BigPow(BASE, result.val), BigPow2(BITS))
        /\ BigLt(BigPow2(BITS), BigPow(BASE, result.val + 1))

C11_FailureClassification ==
    Computed =>
        IF BITS = 0 THEN result = Err("BitsTooSmall")
        ELSE IF BITS > 128 THEN result = Err("BitsTooLarge")
        ELSE IF BASE <= 1 THEN result = Err("BaseTooSmall")
        ELSE IF BASE > 128 THEN result = Err("BaseTooLarge")
        ELSE IF BASE >= 3 /\ BITS < 8 /\ 2^BITS - 1 < BASE - 1
             THEN result = Err("BaseExceedsMaxBitValues")
        ELSE result.tag = "Ok"

C11_Witness ==
    /\ Computed
    /\ BASE = 3
    /\ BITS = 1
    /\ result = Err("BaseExceedsMaxBitValues")

---------------------------------------------------------------------------
(* Statements about the checked entry points (SpecChecked).                *)

IndexMade == op = "PlacesIndex::new"

\* a backing integer (below 2^24) as an unbounded natural
ToBig(x) ==
    IF x = 0 THEN << >>
    ELSE IF x < BigBase THEN <<x>>
    ELSE <<x % BigBase, x \div BigBase>>

(* C12  Index validation: PlacesIndex::new(index) is                       *)
(* Err(BadNitLimitEvaluation(f)) exactly when the capacity computation     *)
(* fails with f, whatever the index; otherwise Err(OutOfBounds) exactly    *)
(* when index >= capacity and Ok(index) exactly when index < capacity.     *)
C12_IndexValidation ==
    IndexMade =>
        LET cap == compute_max_nits_in_bits(BASE, BITS)
        IN  /\ cap.tag \in {"Ok", "Err"}
            /\ cap.tag = "Err" <=> result = Err(BadNitLimitEvaluation(cap.err))
            /\ cap.tag = "Ok" =>
                   /\ index >= cap.val <=> result = Err("OutOfBounds")
                   /\ index < cap.val <=> result = Ok(index)
                   /\ index = cap.val => result.tag = "Err"
                   /\ index = cap.val - 1 => result.tag = "Ok"

C12_Witness ==
    /\ IndexMade
    /\ BITS = 8 /\ BASE = 3
    /\ index = 5
    /\ compute_max_nits_in_bits(BASE, BITS) = Ok(5)
    /\ result = Err("OutOfBounds")

(* C13  Raw-index entry points fail exactly when validation fails and      *)
(* change nothing: if PlacesIndex::new(n) = Err(e), get_nit(n) is None and *)
(* set_nit(n, v) is Err(e) with the integer unchanged; if it is Ok(p),     *)
(* get_nit(n) = Some(get_nit_indexed(p)) and set_nit(n, v) =               *)
(* Ok(set_nit_indexed(p, v)).                                              *)
C13_RawIndexEntryPoints ==
    LET p == PlacesIndex_new(BITS, BASE, index)
    IN  /\ op = "get_nit" =>
               /\ p.tag = "Err" => (result = None /\ data = old)
               /\ p.tag = "Ok" =>
                      result = Some(get_nit_indexed(old, BITS, BASE, p.val))
        /\ op = "set_nit" =>
               /\ p.tag = "Err" => (result = p /\ data = old)
               /\ p.tag = "Ok" =>
                      /\ result = Ok(set_nit_indexed(old, BITS, BASE, p.val, value).ret)
                      /\ data = set_nit_indexed(old, BITS, BASE, p.val, value).self

C13_Witness ==
    /\ op = "set_nit"
    /\ BITS = 8 /\ BASE = 129
    /\ old = 243 /\ index = 0 /\ value = 128
    /\ result = Err("BadNitLimitEvaluation(BaseTooLarge)")
    /\ data = 243

(* C14  No panics through checked entry points: compute_max_nits_in_bits,  *)
(* PlacesIndex::new, get_nit and set_nit always return a value; no         *)
(* division or modulo by zero, no overflow of BASE.pow(index), no          *)
(* underflow of BASE - 1, no shift by >= 128 and no ilog of zero or with   *)
(* base < 2 is reached.                                                    *)
C14_NoPanics ==
    /\ result.tag # "Panic"
    /\ op # "init" => result.tag \in {"Ok", "Err", "Some", "None"}
    /\ (op \in {"get_nit", "set_nit"} /\ PlacesIndex_new(BITS, BASE, index).tag = "Ok") =>
           /\ ~pow_overflows(BASE % Modulus(BITS), index, BITS)
           /\ get_places_shifter(BITS, BASE, index) # 0
           /\ BASE % Modulus(BITS) # 0
    /\ (op # "init" /\ reaches_max(BASE, BITS)) =>
           /\ BASE - 1 >= 0
           /\ BITS # MAXIMUM_SUPPORTED_BITS => BITS < 128
           /\ ~u128_is_zero(max_of_bits(BITS))
           /\ BASE >= 2

C14_Witness ==
    /\ op = "set_nit"
    /\ BITS = 16 /\ BASE = 3
    /\ old = 65535 /\ index = 9 /\ value = 2
    /\ result.tag = "Ok"
    /\ get_places_shifter(BITS, BASE, index) = 19683

(* C15  Scale exactness: for every accepted index i, get_places_shifter    *)
(* returns s = B^i, computed without overflow (B^i <= 2^N - 1), s # 0.     *)
C15_ScaleExactness ==
    /\ (IndexMade /\ result.tag = "Ok") =>
           BigLt(BigPow(BASE, index), BigPow2(BITS))
    /\ (op \in {"get_nit", "set_nit"} /\ result.tag \in {"Ok", "Some"}) =>
           /\ get_places_shifter(BITS, BASE, index) # 0
           /\ ToBig(get_places_shifter(BITS, BASE, index)) = BigPow(BASE, index)
           /\ ~pow_overflows(BASE % Modulus(BITS), index, BITS)

C15_Witness ==
    /\ op = "get_nit"
    /\ BITS = 16 /\ BASE = 2
    /\ index = 15
    /\ result.tag = "Some"
    /\ get_places_shifter(BITS, BASE, index) = 32768

(* C20  A successful capacity is never empty: Ok(c) has c >= 1, so         *)
(* PlacesIndex::new(0) succeeds whenever the (N, B) combination is         *)
(* accepted.                                                               *)
C20_CapacityNeverEmpty ==
    /\ (Computed /\ result.tag = "Ok") => result.val >= 1
    /\ (IndexMade /\ index = 0 /\ compute_max_nits_in_bits(BASE, BITS).tag = "Ok") =>
           result = Ok(0)

---------------------------------------------------------------------------
(* Statements about one call (Spec).                                       *)

SetDone == op = "set_nit" /\ result.tag = "Ok"

\* get_nth_bit of make_binary_equivalency_tests: ((value >> n) & 1) as u8
RECURSIVE shr(_, _)
shr(x, n) == IF n = 0 THEN x ELSE shr(x \div 2, n - 1)

get_nth_bit(x, n) == shr(x, n) % 2

(* C1  Round trip: after a successful set_nit(index, v) on any starting    *)
(* integer (all 2^N values), get_nit(index) returns v.                     *)
C1_RoundTrip ==
    SetDone => get_nit(data, BITS, BASE, index) = Some(value)

(* C2  Locality: a successful set_nit(i, v) on any starting integer leaves *)
(* get_nit(j) unchanged for every valid j other than i.                    *)
C2_Locality ==
    SetDone =>
        \A j \in ValidIndices(BITS, BASE) \ {index} :
            get_nit(data, BITS, BASE, j) = get_nit(old, BITS, BASE, j)

(* C3  Previous-value return: set_nit(i, v) returns Ok(d), d being what    *)
(* get_nit(i) returns on the integer before the write: (x / B^i) mod B.    *)
C3_PreviousValueReturned ==
    SetDone =>
        /\ result = Ok((old \div (BASE ^ index)) % BASE)
        /\ get_nit(old, BITS, BASE, index) = Some(result.val)

C3_Witness ==
    /\ SetDone
    /\ BITS = 8 /\ BASE = 3
    /\ old = 200 /\ index = 4 /\ value = 0
    /\ result = Ok(2)
    /\ data = 38

(* C4  Idempotence of rewriting: if get_nit(i) on x is v, set_nit(i, v)    *)
(* returns v and leaves x unchanged, with diff = 0 and adjust = 0.         *)
C4_RewritingIsIdempotent ==
    (SetDone /\ get_nit(old, BITS, BASE, index) = Some(value)) =>
        /\ result = Ok(value)
        /\ data = old
        /\ set_diff(value, get_nit_indexed(old, BITS, BASE, index), BITS) = 0
        /\ set_adjust(set_diff(value, get_nit_indexed(old, BITS, BASE, index), BITS),
                      get_places_shifter(BITS, BASE, index), BITS) = 0

C4_Witness ==
    /\ SetDone
    /\ BITS = 8 /\ BASE = 3
    /\ old = 255 /\ index = 3 /\ value = 0
    /\ get_nit(old, BITS, BASE, index) = Some(value)
    /\ data = 255

(* C7  Binary equivalence: for base 2 and every i in 0..N, get_nit(i) is   *)
(* Some(d) with d = (x >> i) & 1.                                          *)
C7_BinaryEquivalence ==
    (op = "get_nit" /\ BASE = 2 /\ index < BITS) =>
        result = Some(get_nth_bit(old, index))

C7_Witness ==
    /\ op = "get_nit"
    /\ BITS = 8 /\ BASE = 2
    /\ old = 186 /\ index = 7
    /\ result = Some(1)

\* the digit at the written position before the write, and the scale there
DigitBefore == (old \div (BASE ^ index)) % BASE

ScaleThere == BASE ^ index

(* C16  Wraparound consistency: the integer stored by a write equals       *)
(* (x - d*s + v*s) mod 2^N, s = B^i, d = (x / s) mod B, the expression     *)
(* computed over the unbounded integers.                                   *)
C16_WraparoundConsistency ==
    SetDone =>
        data = (old - DigitBefore * ScaleThere + value * ScaleThere) % (2 ^ BITS)

C16_Witness ==
    /\ SetDone
    /\ BITS = 8 /\ BASE = 3
    /\ old = 243 /\ index = 3 /\ value = 1
    /\ old - DigitBefore * ScaleThere + value * ScaleThere = 270
    /\ data = 14

\* diff * shifter of the write just made fits the backing type
ProductIsExact ==
    LET diff == set_diff(value, get_nit_indexed(old, BITS, BASE, index), BITS)
        shifter == get_places_shifter(BITS, BASE, index)
    IN  diff = 0 \/ diff <= (Modulus(BITS) - 1) \div shifter

CanonicalBound == BASE ^ compute_max_nits_in_bits(BASE, BITS).val

(* C19  Canonical-range invariant: B^c <= 2^N, and a write on x < B^c      *)
(* leaves the unbounded value x - d*B^i + v*B^i in 0..B^c, so it does not  *)
(* wrap and the stored integer stays below B^c.                            *)
C19_CanonicalRange ==
    (SetDone /\ old < CanonicalBound) =>
        /\ CanonicalBound <= 2 ^ BITS
        /\ old - DigitBefore * ScaleThere + value * ScaleThere >= 0
        /\ old - DigitBefore * ScaleThere + value * ScaleThere < CanonicalBound
        /\ data = old - DigitBefore * ScaleThere + value * ScaleThere
        /\ data < CanonicalBound

C19_Witness ==
    /\ SetDone
    /\ BITS = 8 /\ BASE = 3
    /\ old = 161 /\ index = 4 /\ value = 2
    /\ CanonicalBound = 243
    /\ data = 242

(* C21  Writes at distinct positions commute: from every x < B^capacity,   *)
(* for distinct valid indices i, j and digits v, w, set_nit(i, v) then     *)
(* set_nit(j, w) leaves the same integer and returns the same pair of      *)
(* previous digits as set_nit(j, w) then set_nit(i, v).                    *)
C21_DistinctWritesCommute ==
    SetDone =>
        \E cap \in {compute_max_nits_in_bits(BASE, BITS)} :
            old < BASE ^ cap.val =>
                \A j \in (0..(cap.val - 1)) \ {index} :
                    \A w \in 0..(BASE - 1) :
                        \E second \in {set_nit_indexed(data, BITS, BASE, j, w)} :
                        \E first_other \in {set_nit_indexed(old, BITS, BASE, j, w)} :
                        \E second_other \in {set_nit_indexed(first_other.self, BITS, BASE, index, value)} :
                            /\ Nit_new(BASE, w).tag = "Ok"
                            /\ second.self = second_other.self
                            /\ second.ret = first_other.ret
                            /\ result = Ok(second_other.ret)

C21_Witness ==
    /\ SetDone
    /\ BITS = 8 /\ BASE = 3
    /\ old = 100 /\ index = 2 /\ value = 0
    /\ result = Ok(2)
    /\ data = 82
    /\ set_nit(data, BITS, BASE, 0, 2) = [self |-> 83, ret |-> Ok(1)]
    /\ set_nit(set_nit(old, BITS, BASE, 0, 2).self, BITS, BASE, index, value).self = 83

---------------------------------------------------------------------------
(* Statements about sequences of calls from zero (SpecZero).               *)

\* the sum over the positions i, i + 1, ... of w[i] * base^i
RECURSIVE Compose(_, _, _)
Compose(w, base, i) ==
    IF i \notin DOMAIN w THEN 0
    ELSE w[i] * (base ^ i) + Compose(w, base, i + 1)

(* C5  Composition from zero: after any sequence of set_nit calls on 0 the *)
(* integer is the sum of w(i) * B^i, w(i) the digit last written at i (0   *)
(* if none), and get_nit(i) returns w(i); Trit::TWO at positions 0..4 of a *)
(* u8 gives 0b11110010.                                                    *)
C5_CompositionFromZero ==
    /\ data = Compose(written, BASE, 0)
    /\ \A i \in ValidIndices(BITS, BASE) :
           get_nit(data, BITS, BASE, i) = Some(written[i])
    /\ (BITS = 8 /\ BASE = 3 /\ written = [i \in 0..4 |-> 2]) => data = 242

C5_Witness ==
    /\ SetDone
    /\ BITS = 8 /\ BASE = 3
    /\ written = [i \in 0..4 |-> 2]
    /\ data = 242

(* C18  History of writes: in any sequence of set_nit calls from 0, each   *)
(* successful call set_nit(i, v) returns the value most recently written   *)
(* to position i, or 0 if it was never written.                            *)
C18_HistoryOfWrites ==
    [][(op' = "set_nit" /\ result'.tag = "Ok") => result' = Ok(written[index'])]_vars

C18_Witness ==
    /\ SetDone
    /\ BITS = 8 /\ BASE = 3
    /\ scenario = -1
    /\ index = 4 /\ value = 1
    /\ result = Ok(2)
    /\ written = [i \in 0..4 |-> <<2, 2, 0, 1, 1>>[i + 1]]

\* the packing scenario has just been carried out, on a byte in base 3
PackingDone == BITS = 8 /\ BASE = 3 /\ scenario = Len(PackingScript)

ReadsBackScript ==
    \A k \in 1..Len(PackingScript) :
        get_nit(data, BITS, BASE, k - 1) = Some(PackingScript[k])

(* C6  Base-3 packing scenario: from the 8-bit value 0, setting positions  *)
(* 0,1,2,3,4 in order to 1,2,0,0,2 leaves 0b11110010, and reading the      *)
(* positions back yields 1,2,0,0,2.                                        *)
C6_PackingScenario ==
    PackingDone => (data = 242 /\ ReadsBackScript)

(* C6 as amended: the scenario leaves 0b10101001 (169 = 1 + 2*3 + 2*81),   *)
(* and reading the positions back yields 1,2,0,0,2.                        *)
C6_PackingScenarioLeaves169 ==
    PackingDone => (data = 169 /\ ReadsBackScript)

C6_Witness ==
    /\ PackingDone
    /\ SetDone /\ index = 4 /\ value = 2
    /\ data = 169

=============================================================================
